---- MODULE Spec2Model ----
(***************************************************************************)
(* LUT format subsystem of the colour library: the Sony .spi3d and the     *)
(* Resolve .cube codecs and the read_LUT / write_LUT dispatch layer.       *)
(*                                                                         *)
(* Numbers held in memory are integers counting units of 10^-FineDigits.   *)
(* A numeric token of a file is the decimal literal m * 10^-d, written     *)
(* [m |-> m, d |-> d]; any other token is a word [w |-> "..."].  A line of *)
(* a file is either raw text (a sequence of characters, used for comment   *)
(* lines) or a sequence of whitespace-separated tokens.                    *)
(***************************************************************************)
EXTENDS Integers, Sequences, FiniteSets, TLC

VARIABLES
    disk,       \* the file at path: absent, or its lines
    LUT,        \* the caller's LUT / LUTSequence value
    decimals,   \* the formatting decimals passed to the writer
    path,       \* the path passed to the call
    method,     \* the method passed to read_LUT / write_LUT
    result,     \* what the last call returned or raised
    calls,      \* the codec functions invoked so far, in order
    warned,     \* whether a usage warning was issued
    pc          \* position of the calling program

vars == <<disk, LUT, decimals, path, method, result, calls, warned, pc>>

\* ------------------------------------------------------------------ bounds
MaxSize == 4
MaxDecimals == 1
FineDigits == 2
MaxCommentLen == 2
MaxComments == 2

\* ----------------------------------------------------------- number helpers
RECURSIVE Pow10(_)
Pow10(n) == IF n = 0 THEN 1 ELSE 10 * Pow10(n - 1)

\* 1.0 in memory units
Unit == Pow10(FineDigits)

\* v / q rounded to the nearest integer, ties to even ("{:0.Nf}" formatting)
RoundHalfEven(v, q) ==
    LET f == v \div q
        r == v - f * q
    IN  IF 2 * r < q THEN f
        ELSE IF 2 * r > q THEN f + 1
        ELSE IF f % 2 = 0 THEN f ELSE f + 1

Word(s) == [w |-> s]
Num(m, d) == [m |-> m, d |-> d]
IsNum(tok) == "m" \in DOMAIN tok

\* "{:0.{decimals}f}".format(v): the decimal literal of v at d decimals
format_float(v, d) ==
    IF d >= FineDigits
    THEN Num(v * Pow10(d - FineDigits), d)
    ELSE Num(RoundHalfEven(v, Pow10(FineDigits - d)), d)

\* "{:d}".format(n)
format_int(n) == Num(n, 0)

\* float(token), in memory units
as_float(tok) ==
    IF tok.d <= FineDigits
    THEN tok.m * Pow10(FineDigits - tok.d)
    ELSE RoundHalfEven(tok.m, Pow10(tok.d - FineDigits))

\* int(token) of an integer literal
as_int_scalar(tok) == tok.m

\* the value v as it stands at d decimals
AtPrecision(v, d) == as_float(format_float(v, d))

\* ------------------------------------------------------------- text helpers
RECURSIVE lstrip(_)
lstrip(s) == IF Len(s) > 0 /\ Head(s) = " " THEN lstrip(Tail(s)) ELSE s

RECURSIVE rstrip(_)
rstrip(s) ==
    IF Len(s) > 0 /\ s[Len(s)] = " "
    THEN rstrip(SubSeq(s, 1, Len(s) - 1))
    ELSE s

strip(s) == rstrip(lstrip(s))

TextLine(s) == [t |-> "text", s |-> s]
TokenLine(toks) == [t |-> "toks", toks |-> toks]

\* f"# {comment}\n"
comment_line(comment) == TextLine(<<"#", " ">> \o comment)

RECURSIVE comment_lines(_)
comment_lines(comments) ==
    IF comments = <<>> THEN <<>>
    ELSE <<comment_line(Head(comments))>> \o comment_lines(Tail(comments))

\* ------------------------------------------------------------ array helpers
\* an array held in memory: the function with every element computed
array(f) == f @@ <<>>

Grid(size) == (0 .. size - 1) \X (0 .. size - 1) \X (0 .. size - 1)

\* grid index of flat position r (0-based), last index fastest (C order)
CIndex(size, r) == <<r \div (size * size), (r \div size) % size, r % size>>

\* grid index of flat position r (0-based), first index fastest (F order)
FIndex(size, r) == <<r % size, (r \div size) % size, r \div (size * size)>>

\* table.reshape([-1, 3]) of a (size, size, size, 3) array
reshape_rows_C(table, size) ==
    array([r \in 1 .. size * size * size |-> table[CIndex(size, r - 1)]])

\* the cube flattened with the last index fastest
reshape_rows_F_rowmajor(table, size) ==
    array([r \in 1 .. size * size * size |-> table[CIndex(size, r - 1)]])

\* table.reshape([-1, 3], order="F") of a (size, size, size, 3) array
reshape_rows_F(table, size) ==
    array([r \in 1 .. size * size * size |-> table[FIndex(size, r - 1)]])

\* rows.reshape([size, size, size, 3]) of a (size^3, 3) array
reshape_cube_C(rows, size) ==
    array([g \in Grid(size) |->
              rows[1 + g[1] * size * size + g[2] * size + g[3]]])

\* the rows shaped into a cube with the last index fastest
reshape_cube_F_rowmajor(rows, size) ==
    array([g \in Grid(size) |->
              rows[1 + g[1] * size * size + g[2] * size + g[3]]])

\* rows.reshape([size, size, size, 3], order="F") of a (size^3, 3) array
reshape_cube_F(rows, size) ==
    array([g \in Grid(size) |->
              rows[1 + g[1] + g[2] * size + g[3] * size * size]])

\* -------------------------------------------------------------- LUT model
DefaultDomain == <<<<0, 0, 0>>, <<Unit, Unit, Unit>>>>

NoLUT == [kind |-> "None"]

MakeLUT(kind, table, name, domain, comments, size) ==
    [kind |-> kind, name |-> name, size |-> size, table |-> table,
     domain |-> domain, comments |-> comments]

LUTSequence(seq) == [kind |-> "LUTSequence", seq |-> seq]

\* LUT.is_domain_explicit(): an implicit domain is the 2-row (min, max) pair
is_domain_explicit(lut) == Len(lut.domain) # 2

\* np.around(LUT3D.linear_table(size) * (size - 1)): the grid coordinates
linear_table_scaled(size) == array([g \in Grid(size) |-> g])

Ok(v) == [status |-> "ok", value |-> v]
Raise(e) == [status |-> "raise", error |-> e]
NoResult == [status |-> "none"]

NoFile == [exists |-> FALSE, lines |-> <<>>]
File(lines) == [exists |-> TRUE, lines |-> lines]

\* ------------------------------------------------------ Sony .spi3d codec
\* the row with its first two index tokens exchanged
format_array_spi3d_swapped(index, row, dec) ==
    TokenLine(<<format_int(index[2]), format_int(index[1]),
                format_int(index[3]), format_float(row[1], dec),
                format_float(row[2], dec), format_float(row[3], dec)>>)

\* _format_array of write_LUT_SonySPI3D: "i j k r g b"
format_array_spi3d(index, row, dec) ==
    TokenLine(<<format_int(index[1]), format_int(index[2]),
                format_int(index[3]), format_float(row[1], dec),
                format_float(row[2], dec), format_float(row[3], dec)>>)

\* the grid coordinates with the first index changing fastest
linear_table_indexes_F(size) ==
    array([r \in 1 .. size * size * size |-> FIndex(size, r - 1)])

\* indexes of write_LUT_SonySPI3D and the expected indexes of the reader
linear_table_indexes(size) == reshape_rows_C(linear_table_scaled(size), size)

\* the lines written inside "with open(path, 'w')"
spi3d_lines(LUTxD, dec) ==
    LET indexes == linear_table_indexes(LUTxD.size)
        table == reshape_rows_C(LUTxD.table, LUTxD.size)
    IN  <<TokenLine(<<Word("SPILUT"), Num(10, 1)>>),
          TokenLine(<<Num(3, 0), Num(3, 0)>>),
          TokenLine(<<format_int(LUTxD.size), format_int(LUTxD.size),
                      format_int(LUTxD.size)>>)>>
        \o array([i \in 1 .. LUTxD.size * LUTxD.size * LUTxD.size |->
                     format_array_spi3d(indexes[i], table[i], dec)])
        \o comment_lines(LUTxD.comments)

\* outcome of a writer: its result, whether the file was opened for writing
\* and with which lines, whether a usage warning was issued, and the
\* caller's value after the call
WriteOutcome(res, opened, lines, warning, lut) ==
    [result |-> res, opened |-> opened, lines |-> lines, warned |-> warning,
     lut |-> lut]

is_default_domain_implicit(domain) == Len(domain) = 2

\* np.array_equal(LUTxD.domain, np.array([[0, 0, 0], [1, 1, 1]]))
is_default_domain(domain) == domain = DefaultDomain

\* the three attests of the writer, in their order
spi3d_attests(LUTxD) ==
    IF is_domain_explicit(LUTxD) THEN "AssertionError"
    ELSE IF LUTxD.kind # "LUT3D" THEN "AssertionError"
    ELSE IF ~is_default_domain(LUTxD.domain) THEN "AssertionError"
    ELSE "none"

select_LUTxD_last(lut) ==
    IF lut.kind = "LUTSequence" THEN lut.seq[Len(lut.seq)] ELSE lut

\* LUTxD = LUT[0] for a LUTSequence, LUTxD = LUT otherwise
select_LUTxD(lut) == IF lut.kind = "LUTSequence" THEN lut.seq[1] ELSE lut

\* everything before open(path, "w"): the choice of LUTxD and the attests
spi3d_validation(lut) ==
    IF lut.kind = "LUTSequence" /\ Len(lut.seq) = 0 THEN "IndexError"
    ELSE spi3d_attests(select_LUTxD(lut))

write_LUT_SonySPI3D(lut, dec) ==
    LET isSeq == lut.kind = "LUTSequence"
        error == spi3d_validation(lut)
    IN  IF error # "none" THEN WriteOutcome(Raise(error), FALSE, <<>>, isSeq, lut)
        ELSE WriteOutcome(Ok(TRUE), TRUE, spi3d_lines(select_LUTxD(lut), dec),
                          isSeq, lut)

\* the order of np.lexsort((idx[:, 0], idx[:, 1], idx[:, 2])): keys reversed
lexsort_less_reversed(a, b) ==
    \/ a[3] < b[3]
    \/ a[3] = b[3] /\ a[2] < b[2]
    \/ a[3] = b[3] /\ a[2] = b[2] /\ a[1] < b[1]

\* a < b in the order of np.lexsort((idx[:, 2], idx[:, 1], idx[:, 0])):
\* the last key is the primary one
lexsort_less(a, b) ==
    \/ a[1] < b[1]
    \/ a[1] = b[1] /\ a[2] < b[2]
    \/ a[1] = b[1] /\ a[2] = b[2] /\ a[3] < b[3]

\* sorting_indexes: the positions of the rows in sorted order, rows with
\* equal keys staying in file order (the sort is stable)
lexsort(indexes) ==
    LET n == Len(indexes)
        rank == array([p \in 1 .. n |->
                    1 + Cardinality({q \in 1 .. n :
                            \/ lexsort_less(indexes[q], indexes[p])
                            \/ /\ ~lexsort_less(indexes[p], indexes[q])
                               /\ q < p})])
    IN  array([r \in 1 .. n |-> CHOOSE p \in 1 .. n : rank[p] = r])

\* state of the parsing loop of read_LUT_SonySPI3D
spi3d_parse_init ==
    [size |-> 2, data_table |-> <<>>, data_indexes |-> <<>>,
     comments |-> <<>>, error |-> "none"]

\* every size line taken as uniform
is_uniform_shape_unchecked(tokens) == TRUE

\* len(set(tokens)) == 1: the three tokens of a size line are the same text
is_uniform_shape(tokens) == Cardinality({tokens[n] : n \in 1 .. 3}) = 1

spi3d_parse_line(acc, line) ==
    IF acc.error # "none" THEN acc
    ELSE IF line.t = "text"
    THEN LET s == strip(line.s)
         IN  IF Len(s) = 0 THEN acc
             ELSE IF Head(s) = "#"
             THEN [acc EXCEPT !.comments = Append(@, strip(Tail(s)))]
             ELSE acc
    ELSE LET tokens == line.toks
         IN  IF Len(tokens) = 3
             THEN IF ~is_uniform_shape(tokens)
                  THEN [acc EXCEPT !.error = "AssertionError"]
                  ELSE IF ~IsNum(tokens[1])
                  THEN [acc EXCEPT !.error = "ValueError"]
                  ELSE [acc EXCEPT !.size = as_int_scalar(tokens[1])]
             ELSE IF Len(tokens) = 6
             THEN IF \E n \in 1 .. 6 : ~IsNum(tokens[n])
                  THEN [acc EXCEPT !.error = "ValueError"]
                  ELSE [acc EXCEPT
                          !.data_table =
                              Append(@, <<as_float(tokens[4]),
                                          as_float(tokens[5]),
                                          as_float(tokens[6])>>),
                          !.data_indexes =
                              Append(@, <<as_int_scalar(tokens[1]),
                                          as_int_scalar(tokens[2]),
                                          as_int_scalar(tokens[3])>>)]
             ELSE acc

\* "for line in lines" over lines[lo .. hi], in file order
RECURSIVE spi3d_parse(_, _, _, _)
spi3d_parse(acc, lines, lo, hi) ==
    IF lo > hi THEN acc
    ELSE IF lo = hi THEN spi3d_parse_line(acc, lines[lo])
    ELSE LET mid == (lo + hi) \div 2
             upto_mid == spi3d_parse(acc, lines, lo, mid)
         IN  IF upto_mid.error # "none" THEN upto_mid
             ELSE spi3d_parse(upto_mid, lines, mid + 1, hi)

\* os.path.splitext(path)[-1] of a path held as its pieces, each "." a
\* piece of its own: the last "." that does not lead the path, and what
\* follows it
splitext(p) ==
    LET dots == {n \in 2 .. Len(p) : p[n] = "."}
    IN  IF dots = {} THEN <<>>
        ELSE SubSeq(p, CHOOSE n \in dots : \A m \in dots : m <= n, Len(p))

\* path_to_title(path): the default title of a file, its name without the
\* extension
path_to_title(p) == SubSeq(p, 1, Len(p) - Len(splitext(p)))

read_LUT_SonySPI3D(p, file) ==
    IF ~file.exists THEN Raise("FileNotFoundError")
    ELSE
    LET acc == spi3d_parse(spi3d_parse_init, file.lines, 1, Len(file.lines))
        size == acc.size
        indexes == acc.data_indexes
    IN  IF acc.error # "none" THEN Raise(acc.error)
        ELSE IF Len(indexes) = 0 THEN Raise("IndexError")
        ELSE
        LET sorting_indexes == lexsort(indexes)
            sorted == array([n \in 1 .. Len(indexes) |->
                                indexes[sorting_indexes[n]]])
        IN  IF sorted # linear_table_indexes(size)
            THEN Raise("AssertionError")
            ELSE
            LET rows == array([n \in 1 .. Len(indexes) |->
                                  acc.data_table[sorting_indexes[n]]])
            IN  Ok(MakeLUT("LUT3D", reshape_cube_C(rows, size),
                           path_to_title(p), DefaultDomain, acc.comments,
                           size))

\* ---------------------------------------------------- Resolve .cube codec
Quoted(name) == [quoted |-> name]

\* LUT3x1D() and LUT3D(): the placeholders of write_LUT_ResolveCube, with
\* the default domain and no comments; their tables are never written
DefaultLUT3x1D ==
    MakeLUT("LUT3x1D", <<>>, <<"Unity">>, DefaultDomain, <<>>, 0)

DefaultLUT3D == MakeLUT("LUT3D", <<>>, <<"Unity">>, DefaultDomain, <<>>, 0)

\* LUT1D.as_LUT(LUT3x1D): the channel repeated three times (the rows of a
\* LUT1D table and domain hold one value each)
as_LUT3x1D(lut) ==
    MakeLUT("LUT3x1D",
            array([n \in 1 .. Len(lut.table) |->
                      <<lut.table[n][1], lut.table[n][1], lut.table[n][1]>>]),
            lut.name,
            array([n \in 1 .. Len(lut.domain) |->
                      <<lut.domain[n][1], lut.domain[n][1],
                        lut.domain[n][1]>>]),
            lut.comments, lut.size)

\* np.unique(LUT.domain): the distinct values of the domain array
domain_values(lut) ==
    {lut.domain[n][c] : n \in 1 .. Len(lut.domain), c \in 1 .. 3}

\* _format_array of write_LUT_ResolveCube: "r g b"
format_array_cube(row, dec) ==
    TokenLine(<<format_float(row[1], dec), format_float(row[2], dec),
                format_float(row[3], dec)>>)

\* _format_tuple: "min max"
format_tuple(keyword, lo, hi, dec) ==
    TokenLine(<<Word(keyword), format_float(lo, dec), format_float(hi, dec)>>)

\* the lines written inside "with open(path, 'w')"
cube_lines(seq, name, has_3x1D, has_3D, dec) ==
    <<TokenLine(<<Word("TITLE"), Quoted(name)>>)>>
    \o comment_lines(seq[1].comments)
    \o comment_lines(seq[2].comments)
    \o (IF has_3x1D
        THEN <<TokenLine(<<Word("LUT_1D_SIZE"),
                           format_int(Len(seq[1].table))>>)>>
             \o (IF seq[1].domain # DefaultDomain
                 THEN <<format_tuple("LUT_1D_INPUT_RANGE",
                                     seq[1].domain[1][1],
                                     seq[1].domain[2][1], dec)>>
                 ELSE <<>>)
        ELSE <<>>)
    \o (IF has_3D
        THEN <<TokenLine(<<Word("LUT_3D_SIZE"), format_int(seq[2].size)>>)>>
             \o (IF seq[2].domain # DefaultDomain
                 THEN <<format_tuple("LUT_3D_INPUT_RANGE",
                                     seq[2].domain[1][1],
                                     seq[2].domain[2][1], dec)>>
                 ELSE <<>>)
        ELSE <<>>)
    \o (IF has_3x1D
        THEN array([n \in 1 .. Len(seq[1].table) |->
                       format_array_cube(seq[1].table[n], dec)])
             \o <<TextLine(<<>>)>>
        ELSE <<>>)
    \o (IF has_3D
        THEN LET table == reshape_rows_F(seq[2].table, seq[2].size)
             IN  array([n \in 1 .. Len(table) |->
                           format_array_cube(table[n], dec)])
        ELSE <<>>)

\* a shaper and a cube followed by anything
is_shaper_and_cube_or_longer(lut) ==
    /\ Len(lut.seq) >= 2
    /\ lut.seq[1].kind \in {"LUT1D", "LUT3x1D"}
    /\ lut.seq[2].kind = "LUT3D"

\* len(LUT) == 2 and isinstance(LUT[0], (LUT1D, LUT3x1D)) and
\* isinstance(LUT[1], LUT3D)
is_shaper_and_cube(lut) ==
    /\ Len(lut.seq) = 2
    /\ lut.seq[1].kind \in {"LUT1D", "LUT3x1D"}
    /\ lut.seq[2].kind = "LUT3D"

\* the sequence write_LUT_ResolveCube goes on with, or the failure raised
\* while making it; caller is the caller's value after the call
CubeSequence(error, seq, name, has_3x1D, has_3D, caller) ==
    [error |-> error, seq |-> seq, name |-> name, has_3x1D |-> has_3x1D,
     has_3D |-> has_3D, caller |-> caller]

\* the assignment made on a copy of the sequence
setitem_first_on_copy(lut, value) == lut

\* LUT[0] = value: the caller's sequence with its first element replaced
setitem_first(lut, value) == LUTSequence([lut.seq EXCEPT ![1] = value])

\* the isinstance chain of write_LUT_ResolveCube
cube_sequence(lut) ==
    IF lut.kind = "LUTSequence"
    THEN IF ~is_shaper_and_cube(lut)
         THEN CubeSequence("AssertionError", <<>>, <<>>, FALSE, FALSE, lut)
         ELSE LET is1D == lut.seq[1].kind = "LUT1D"
                  seq == IF is1D
                         THEN <<as_LUT3x1D(lut.seq[1]), lut.seq[2]>>
                         ELSE lut.seq
              IN  CubeSequence("none", seq,
                               seq[1].name \o <<" - ">> \o seq[2].name,
                               TRUE, TRUE,
                               IF is1D THEN setitem_first(lut, seq[1])
                               ELSE lut)
    ELSE IF lut.kind = "LUT1D"
    THEN CubeSequence("none", <<as_LUT3x1D(lut), DefaultLUT3D>>, lut.name,
                      TRUE, FALSE, lut)
    ELSE IF lut.kind = "LUT3x1D"
    THEN CubeSequence("none", <<lut, DefaultLUT3D>>, lut.name, TRUE, FALSE,
                      lut)
    ELSE IF lut.kind = "LUT3D"
    THEN CubeSequence("none", <<DefaultLUT3x1D, lut>>, lut.name, FALSE, TRUE,
                      lut)
    ELSE CubeSequence("ValueError", <<>>, <<>>, FALSE, FALSE, lut)

\* cube sizes up to 257
is_cube_size_valid_to_257(size) == 2 <= size /\ size <= 257

\* 2 <= LUT[1].size <= 256
is_cube_size_valid(size) == 2 <= size /\ size <= 256

\* 2 <= LUT[0].size <= 65536
is_shaper_size_valid(size) == 2 <= size /\ size <= 65536

\* the attests of write_LUT_ResolveCube on the sequence: the failure raised,
\* or "none"
cube_attests(seq, has_3x1D, has_3D) ==
    IF is_domain_explicit(seq[1]) \/ is_domain_explicit(seq[2])
    THEN "AssertionError"
    ELSE IF ~(/\ Cardinality(domain_values(seq[1])) = 2
              /\ Cardinality(domain_values(seq[2])) = 2)
    THEN "AssertionError"
    ELSE IF has_3x1D /\ ~is_shaper_size_valid(seq[1].size)
    THEN "AssertionError"
    ELSE IF has_3D /\ ~is_cube_size_valid(seq[2].size)
    THEN "AssertionError"
    ELSE "none"

\* write_LUT_ResolveCube before the file is opened: the failure raised, or
\* "none"
cube_validation(lut) ==
    LET s == cube_sequence(lut)
    IN  IF s.error # "none" THEN s.error
        ELSE cube_attests(s.seq, s.has_3x1D, s.has_3D)

write_LUT_ResolveCube(lut, dec) ==
    LET s == cube_sequence(lut)
        error == cube_validation(lut)
    IN  IF error # "none"
        THEN WriteOutcome(Raise(error), FALSE, <<>>, FALSE, s.caller)
        ELSE WriteOutcome(Ok(TRUE), TRUE,
                          cube_lines(s.seq, s.name, s.has_3x1D, s.has_3D,
                                     dec),
                          FALSE, s.caller)

\* state of the parsing loop of read_LUT_ResolveCube; no_domain stands for
\* None
no_domain == <<>>

cube_parse_init(p) ==
    [title |-> path_to_title(p), domain_3x1D |-> no_domain,
     domain_3D |-> no_domain, size_3x1D |-> 2, size_3D |-> 2, data |-> <<>>,
     comments |-> <<>>, has_3x1D |-> FALSE, has_3D |-> FALSE]

\* tstack([tokens[1:], tokens[1:], tokens[1:]]) as a float array
input_range(tokens) ==
    array([n \in 1 .. Len(tokens) - 1 |->
              <<as_float(tokens[n + 1]), as_float(tokens[n + 1]),
                as_float(tokens[n + 1])>>])

cube_parse_line(acc, line) ==
    IF line.t = "text"
    THEN LET s == strip(line.s)
         IN  IF Len(s) = 0 THEN acc
             ELSE IF Head(s) = "#"
             THEN [acc EXCEPT !.comments = Append(@, strip(Tail(s)))]
             ELSE [acc EXCEPT !.data = Append(@, <<Word("text")>>)]
    ELSE LET tokens == line.toks
         IN  IF tokens[1] = Word("TITLE")
             THEN [acc EXCEPT !.title = tokens[2].quoted]
             ELSE IF tokens[1] = Word("LUT_1D_INPUT_RANGE")
             THEN [acc EXCEPT !.domain_3x1D = input_range(tokens)]
             ELSE IF tokens[1] = Word("LUT_3D_INPUT_RANGE")
             THEN [acc EXCEPT !.domain_3D = input_range(tokens)]
             ELSE IF tokens[1] = Word("LUT_1D_SIZE")
             THEN [acc EXCEPT !.has_3x1D = TRUE,
                              !.size_3x1D = as_int_scalar(tokens[2])]
             ELSE IF tokens[1] = Word("LUT_3D_SIZE")
             THEN [acc EXCEPT !.has_3D = TRUE,
                              !.size_3D = as_int_scalar(tokens[2])]
             ELSE [acc EXCEPT !.data = Append(@, tokens)]

\* "for line in lines" over lines[lo .. hi], in file order
RECURSIVE cube_parse(_, _, _, _)
cube_parse(acc, lines, lo, hi) ==
    IF lo > hi THEN acc
    ELSE IF lo = hi THEN cube_parse_line(acc, lines[lo])
    ELSE LET mid == (lo + hi) \div 2
             upto_mid == cube_parse(acc, lines, lo, mid)
         IN  IF Len(upto_mid.data) >= 0
             THEN cube_parse(upto_mid, lines, mid + 1, hi)
             ELSE upto_mid

\* as_float_array(data) succeeds: every row holds three numbers
is_float_table(data) ==
    \A n \in 1 .. Len(data) :
        Len(data[n]) = 3 /\ \A c \in 1 .. 3 : IsNum(data[n][c])

\* as_float_array(data)
as_float_table(data) ==
    array([n \in 1 .. Len(data) |->
              <<as_float(data[n][1]), as_float(data[n][2]),
                as_float(data[n][3])>>])

\* the whole table in place of its first n rows
table_head_all(table, n) == table

\* table[:n]
table_head(table, n) ==
    SubSeq(table, 1, IF n < Len(table) THEN n ELSE Len(table))

\* table[n:]
table_tail(table, n) == SubSeq(table, n + 1, Len(table))

\* the domain argument of a LUT constructor: None means the default domain
domain_or_default(domain) ==
    IF domain = no_domain THEN DefaultDomain ELSE domain

read_LUT_ResolveCube(p, file) ==
    IF ~file.exists THEN Raise("FileNotFoundError")
    ELSE
    LET acc == cube_parse(cube_parse_init(p), file.lines, 1, Len(file.lines))
        size_3D == acc.size_3D
    IN  IF ~is_float_table(acc.data) THEN Raise("ValueError")
        ELSE
        LET table == as_float_table(acc.data)
        IN  IF acc.has_3x1D /\ acc.has_3D
            THEN LET table_1D == table_head(table, acc.size_3x1D)
                     rest == table_tail(table, acc.size_3x1D)
                 IN  IF Len(rest) # size_3D * size_3D * size_3D
                     THEN Raise("ValueError")
                     ELSE IF Len(table_1D) = 0 THEN Raise("AssertionError")
                     ELSE Ok(LUTSequence(
                         <<MakeLUT("LUT3x1D", table_1D,
                                   acc.title \o <<" - Shaper">>,
                                   domain_or_default(acc.domain_3x1D), <<>>,
                                   Len(table_1D)),
                           MakeLUT("LUT3D", reshape_cube_F(rest, size_3D),
                                   acc.title \o <<" - Cube">>,
                                   domain_or_default(acc.domain_3D),
                                   acc.comments, size_3D)>>))
            ELSE IF acc.has_3x1D
            THEN IF Len(table) = 0 THEN Raise("AssertionError")
                 ELSE Ok(MakeLUT("LUT3x1D", table, acc.title,
                                 domain_or_default(acc.domain_3x1D),
                                 acc.comments, Len(table)))
            ELSE IF acc.has_3D
            THEN IF Len(table) # size_3D * size_3D * size_3D
                 THEN Raise("ValueError")
                 ELSE Ok(MakeLUT("LUT3D", reshape_cube_F(table, size_3D),
                                 acc.title,
                                 domain_or_default(acc.domain_3D),
                                 acc.comments, size_3D))
            ELSE Raise("UnboundLocalError")

\* ----------------------------------------------------- dispatch layer
\* str.lower() on the names and extensions of the model
lower(name) ==
    CASE name = "Iridas Cube" -> "iridas cube"
      [] name = "IRIDAS CUBE" -> "iridas cube"
      [] name = "Resolve Cube" -> "resolve cube"
      [] name = "RESOLVE CUBE" -> "resolve cube"
      [] name = "Sony SPI1D" -> "sony spi1d"
      [] name = "Sony SPI3D" -> "sony spi3d"
      [] name = "SONY SPI3D" -> "sony spi3d"
      [] name = "Sony SPImtx" -> "sony spimtx"
      [] name = "Cinespace" -> "cinespace"
      [] name = "CUBE" -> "cube"
      [] name = "Cube" -> "cube"
      [] name = "SPI3D" -> "spi3d"
      [] name = "TXT" -> "txt"
      [] OTHER -> name

lower_pieces(pieces) == [n \in 1 .. Len(pieces) |-> lower(pieces[n])]

\* the mappings are case-insensitive: their keys are held in lower case
EXTENSION_TO_LUT_FORMAT_MAPPING ==
    (<<".", "cube">> :> "Iridas Cube")
    @@ (<<".", "spi1d">> :> "Sony SPI1D")
    @@ (<<".", "spi3d">> :> "Sony SPI3D")
    @@ (<<".", "spimtx">> :> "Sony SPImtx")
    @@ (<<".", "csp">> :> "Cinespace")

LUT_READ_METHODS ==
    ("cinespace" :> "read_LUT_Cinespace")
    @@ ("iridas cube" :> "read_LUT_IridasCube")
    @@ ("resolve cube" :> "read_LUT_ResolveCube")
    @@ ("sony spi1d" :> "read_LUT_SonySPI1D")
    @@ ("sony spi3d" :> "read_LUT_SonySPI3D")
    @@ ("sony spimtx" :> "read_LUT_SonySPImtx")

LUT_WRITE_METHODS ==
    ("cinespace" :> "write_LUT_Cinespace")
    @@ ("iridas cube" :> "write_LUT_IridasCube")
    @@ ("resolve cube" :> "write_LUT_ResolveCube")
    @@ ("sony spi1d" :> "write_LUT_SonySPI1D")
    @@ ("sony spi3d" :> "write_LUT_SonySPI3D")
    @@ ("sony spimtx" :> "write_LUT_SonySPImtx")

\* optional(value, default); "None" stands for None
optional(value, default) == IF value = "None" THEN default ELSE value

\* validate_method(method, valid_methods) of a registered name: the name
\* in lower case
validate_method(m, valid_methods) == lower(m)

\* one codec call as the log holds it
Call(function, p, out) == [fn |-> function, path |-> p, out |-> out]

\* a LUT as a codec whose code is not at hand returns it
SomeLUT == MakeLUT("LUT3D", <<>>, <<"Some LUT">>, DefaultDomain, <<>>, 2)

\* what such a reader may do with a file that exists
ReaderOutcomes ==
    {Ok(SomeLUT), Raise("ValueError"), Raise("AssertionError"),
     Raise("OSError")}

\* function(path): the two readers at hand as their code goes; the others
\* fail on a missing file and else do o, read_LUT_IridasCube failing with
\* a value error on a file that holds a shaper and a cube
call_reader(function, p, file, o) ==
    IF function = "read_LUT_ResolveCube" THEN read_LUT_ResolveCube(p, file)
    ELSE IF function = "read_LUT_SonySPI3D" THEN read_LUT_SonySPI3D(p, file)
    ELSE IF ~file.exists THEN Raise("FileNotFoundError")
    ELSE IF function = "read_LUT_IridasCube"
    THEN LET acc == cube_parse(cube_parse_init(p), file.lines, 1,
                               Len(file.lines))
         IN  IF acc.has_3x1D /\ acc.has_3D THEN Raise("ValueError") ELSE o
    ELSE o

DispatchOutcome(res, log) == [result |-> res, calls |-> log]

\* any failure at all
isinstance_Exception(out) == out.status = "raise"

\* the failures that "except ValueError" catches
isinstance_ValueError(out) == out = Raise("ValueError")

\* every value error raised again
except_ValueError_reraise(meth, first, p, file) ==
    DispatchOutcome(first.out, <<first>>)

\* the "except ValueError" clause of read_LUT; first is the failed call
except_ValueError(meth, first, p, file) ==
    IF meth = "iridas cube"
    THEN LET function == LUT_READ_METHODS[lower("Resolve Cube")]
             second == Call(function, p, read_LUT_ResolveCube(p, file))
         IN  DispatchOutcome(second.out, <<first, second>>)
    ELSE DispatchOutcome(first.out, <<first>>)

read_LUT(p, m, file, o) ==
    LET extension == lower_pieces(splitext(p))
    IN  IF extension \notin DOMAIN EXTENSION_TO_LUT_FORMAT_MAPPING
        THEN DispatchOutcome(Raise("KeyError"), <<>>)
        ELSE
        LET meth == validate_method(
                        optional(m, EXTENSION_TO_LUT_FORMAT_MAPPING[extension]),
                        LUT_READ_METHODS)
            function == LUT_READ_METHODS[meth]
            first == Call(function, p, call_reader(function, p, file, o))
        IN  IF isinstance_ValueError(first.out)
            THEN except_ValueError(meth, first, p, file)
            ELSE DispatchOutcome(first.out, <<first>>)

\* what a writer whose code is not at hand may do
OpaqueLines == <<TextLine(<<"#">>)>>

WriterOutcomes(lut) ==
    {WriteOutcome(Ok(TRUE), TRUE, OpaqueLines, FALSE, lut),
     WriteOutcome(Raise("AssertionError"), FALSE, <<>>, FALSE, lut),
     WriteOutcome(Raise("ValueError"), FALSE, <<>>, FALSE, lut)}

\* function(LUT, path, decimals)
call_writer(function, lut, dec, o) ==
    IF function = "write_LUT_ResolveCube" THEN write_LUT_ResolveCube(lut, dec)
    ELSE IF function = "write_LUT_SonySPI3D"
    THEN write_LUT_SonySPI3D(lut, dec)
    ELSE o

\* the method kept whatever the value
upgrade_method_never(meth, lut) == meth

\* if method == "iridas cube" and isinstance(LUT, LUTSequence)
upgrade_method(meth, lut) ==
    IF meth = "iridas cube" /\ lut.kind = "LUTSequence"
    THEN "resolve cube"
    ELSE meth

write_LUT(lut, p, dec, m, o) ==
    LET extension == lower_pieces(splitext(p))
    IN  IF extension \notin DOMAIN EXTENSION_TO_LUT_FORMAT_MAPPING
        THEN [outcome |-> WriteOutcome(Raise("KeyError"), FALSE, <<>>, FALSE,
                                       lut),
              calls |-> <<>>]
        ELSE
        LET meth == upgrade_method(
                        validate_method(
                            optional(m,
                                EXTENSION_TO_LUT_FORMAT_MAPPING[extension]),
                            LUT_WRITE_METHODS),
                        lut)
            function == LUT_WRITE_METHODS[meth]
            outcome == call_writer(function, lut, dec, o)
        IN  [outcome |-> outcome,
             calls |-> <<Call(function, p, outcome.result)>>]

\* ------------------------------------------------------------ input sets
SeqsUpTo(S, n) == UNION {[1 .. k -> S] : k \in 0 .. n}

CommentChars == {"a", " "}
Comments == SeqsUpTo(CommentChars, MaxCommentLen)
CommentLists == SeqsUpTo(Comments, MaxComments)
FewCommentLists == {<<>>, <<<<"a">>, <<" ", "a">>>>}

Sizes == 2 .. MaxSize

Hot == <<Unit, Unit \div 4, (3 * Unit) \div 8>>
Cold == <<0, 0, 0>>

\* LUT3D.linear_table(size): the identity cube
Ramp(size) ==
    array([g \in Grid(size) |->
              <<(g[1] * Unit) \div (size - 1), (g[2] * Unit) \div (size - 1),
                (g[3] * Unit) \div (size - 1)>>])

OneHot(size, p) == array([g \in Grid(size) |-> IF g = p THEN Hot ELSE Cold])

\* grid points that tell the axes and the two ends of an axis apart
HotPoints(size) ==
    {<<0, 0, 1>>, <<0, 1, 0>>, <<1, 0, 0>>, <<0, 1, size - 1>>,
     <<size - 1, size - 1, 0>>}

Tables3D(size) == {Ramp(size)} \cup {OneHot(size, p) : p \in HotPoints(size)}

WideDomain == <<<<0, 0, 0>>, <<2 * Unit, 2 * Unit, 2 * Unit>>>>
MixedDomain == <<<<0, 0, 0>>, <<Unit, 2 * Unit, 3 * Unit>>>>
HalfDomain == <<<<0, 0, 0>>, <<Unit \div 2, Unit \div 2, Unit \div 2>>>>
CrossedDomain == <<<<0, Unit, 0>>, <<Unit, 0, Unit>>>>
ExplicitDomain == <<<<0, 0, 0>>, <<Unit, Unit, Unit>>, <<2 * Unit, 2 * Unit, 2 * Unit>>>>

Name == <<"My LUT">>

\* LUT3D values of size 2 with every list of comments
RichLUT3Ds ==
    {MakeLUT("LUT3D", t, Name, DefaultDomain, c, 2) :
        t \in {Ramp(2), OneHot(2, <<0, 0, 1>>)}, c \in CommentLists}

\* LUT3D values of every size with a few lists of comments
LUT3Ds(domains) ==
    UNION {{MakeLUT("LUT3D", t, Name, d, c, size) :
                t \in Tables3D(size), d \in domains, c \in FewCommentLists} :
           size \in Sizes}

Table3x1D(size) == array([n \in 1 .. size |-> <<n, 2 * n, Unit - n>>])

LUT3x1Ds(domains) ==
    {MakeLUT("LUT3x1D", Table3x1D(size), <<"My Shaper">>, d, c, size) :
        size \in Sizes, d \in domains, c \in FewCommentLists}

\* sequences of one to three LUTs: the first one writable or not, the later
\* ones of every kind
SPI3DSequences ==
    LET first == {MakeLUT("LUT3D", Ramp(2), Name, DefaultDomain, <<>>, 2),
                  MakeLUT("LUT3D", OneHot(2, <<0, 0, 1>>), Name, DefaultDomain,
                          <<<<"a">>>>, 2),
                  MakeLUT("LUT3D", Ramp(2), Name, WideDomain, <<>>, 2),
                  MakeLUT("LUT3x1D", Table3x1D(2), <<"My Shaper">>,
                          DefaultDomain, <<>>, 2)}
        later == {MakeLUT("LUT3D", OneHot(2, <<1, 0, 0>>), Name, DefaultDomain,
                          <<<<"b">>>>, 2),
                  MakeLUT("LUT3D", Ramp(3), Name, WideDomain, <<>>, 3),
                  MakeLUT("LUT3x1D", Table3x1D(3), <<"My Shaper">>,
                          DefaultDomain, <<>>, 3)}
    IN  {LUTSequence(<<a>>) : a \in first}
        \cup {LUTSequence(<<a, b>>) : a \in first, b \in later}
        \cup {LUTSequence(<<a, b, c>>) : a \in first, b \in later, c \in first}

SPI3DWriteInputs ==
    RichLUT3Ds
    \cup LUT3Ds({DefaultDomain, WideDomain})
    \cup {MakeLUT("LUT3D", Ramp(2), Name, ExplicitDomain, <<>>, 2)}
    \cup LUT3x1Ds({DefaultDomain})
    \cup {MakeLUT("LUT1D", array([n \in 1 .. 2 |-> <<3 * n>>]), <<"My Curve">>,
                   <<<<0>>, <<Unit>>>>, <<>>, 2)}
    \cup SPI3DSequences

\* the data rows of a .spi3d file of the given size in canonical order, row
\* n carrying the values n, n + 1, n + 2 at d decimals
CanonRows(size, d) ==
    array([n \in 1 .. size * size * size |->
              LET g == CIndex(size, n - 1)
              IN  TokenLine(<<Num(g[1], 0), Num(g[2], 0), Num(g[3], 0),
                              Num(n, d), Num(n + 1, d), Num(n + 2, d)>>)])

\* row positions at the start, at the axis strides and at the end
Marks(size) ==
    {1, 2, size + 1, size * size + 1, size * size * size - 1}

\* a family of permutations of 1 .. N: rotations, the reversal, the
\* first-index-fastest order and adjacent transpositions
Perms(size) ==
    LET N == size * size * size
    IN  {[n \in 1 .. N |-> ((n - 1 + k) % N) + 1] : k \in {0} \cup Marks(size)}
        \cup {[n \in 1 .. N |-> N + 1 - n]}
        \cup {[n \in 1 .. N |->
                 LET g == FIndex(size, n - 1)
                 IN  1 + g[1] * size * size + g[2] * size + g[3]]}
        \cup {[n \in 1 .. N |->
                 IF n = k THEN k + 1 ELSE IF n = k + 1 THEN k ELSE n] :
              k \in Marks(size)}

Permute(rows, p) == array([n \in 1 .. Len(rows) |-> rows[p[n]]])

BadIndexRow(size) ==
    TokenLine(<<Num(size, 0), Num(0, 0), Num(0, 0),
                Num(0, 0), Num(0, 0), Num(0, 0)>>)

\* rows whose index triples are not the grid points each exactly once
BadRows(size) ==
    LET rows == CanonRows(size, 1)
        N == size * size * size
        K == Marks(size) \cup {N}
    IN  {SubSeq(rows, 1, k - 1) \o SubSeq(rows, k + 1, N) : k \in K}
        \cup {[rows EXCEPT ![k] = rows[(k % N) + 1]] : k \in K}
        \cup {Append(rows, rows[k]) : k \in K}
        \cup {[rows EXCEPT ![k] = BadIndexRow(size)] : k \in K}
        \cup {<<>>}

SPI3DHeader(size) ==
    <<TokenLine(<<Word("SPILUT"), Num(10, 1)>>),
      TokenLine(<<Num(3, 0), Num(3, 0)>>),
      TokenLine(<<Num(size, 0), Num(size, 0), Num(size, 0)>>)>>

\* comment lines as other programs write them: no space, padded, blank
ForeignComments ==
    {<<>>,
     <<TextLine(<<"#", "a">>)>>,
     <<TextLine(<<" ", "#", " ", " ", "a", " ">>), TextLine(<<" ">>),
       TextLine(<<"#">>)>>}

\* size lines whose three tokens are not the same text
OddSizeLines ==
    {<<Num(3, 0), Num(4, 0), Num(5, 0)>>, <<Num(2, 0), Num(2, 0), Num(3, 0)>>,
     <<Num(2, 0), Num(20, 1), Num(2, 0)>>}

SPI3DPreamble == SubSeq(SPI3DHeader(2), 1, 2)

\* files with such a size line before, between or after their data rows
NonUniformFiles ==
    {File(SPI3DPreamble \o before \o <<TokenLine(s)>> \o after) :
        s \in OddSizeLines,
        before \in {<<>>, CanonRows(2, 1),
                    <<SPI3DHeader(2)[3]>> \o CanonRows(2, 1)},
        after \in {<<>>, CanonRows(2, 1), CanonRows(3, 1)}}

\* files with no size line at all
HeaderlessFiles ==
    {File(SPI3DPreamble \o rows \o c) :
        rows \in {CanonRows(2, 1), CanonRows(3, 1)} \cup BadRows(2),
        c \in ForeignComments}

\* files with two uniform size lines of different sizes: the second one
\* right after the first, between the data rows, or after the last row
TwoSizeLineFiles ==
    {File(SPI3DPreamble \o <<SPI3DHeader(a)[3]>> \o SubSeq(rows, 1, k)
             \o <<SPI3DHeader(b)[3]>> \o SubSeq(rows, k + 1, Len(rows))) :
        a \in {2, 3}, b \in {2, 3},
        rows \in {CanonRows(2, 1), CanonRows(3, 1)},
        k \in {0, 1, 8}}

SPI3DFiles ==
    UNION {{File(c \o SPI3DHeader(size) \o rows \o c) :
                rows \in {Permute(CanonRows(size, 1), p) : p \in Perms(size)}
                         \cup BadRows(size),
                c \in ForeignComments} :
           size \in Sizes}
    \cup NonUniformFiles
    \cup HeaderlessFiles
    \cup TwoSizeLineFiles

\* ------------------------------------------------- Sony .spi3d: the program
SPI3DInit ==
    /\ pc = "start"
    /\ result = NoResult
    /\ calls = <<>>
    /\ warned = FALSE
    /\ path = <<"lut", ".", "spi3d">>
    /\ method = "None"
    /\ \/ /\ disk = NoFile
          /\ LUT \in SPI3DWriteInputs
          /\ decimals \in 0 .. MaxDecimals
       \/ /\ disk \in SPI3DFiles
          /\ LUT = NoLUT
          /\ decimals = 0

\* write_LUT_SonySPI3D(LUT, path, decimals)
WriteSPI3D ==
    /\ pc = "start"
    /\ LUT # NoLUT
    /\ LET o == write_LUT_SonySPI3D(LUT, decimals)
       IN  /\ disk' = IF o.opened THEN File(o.lines) ELSE disk
           /\ LUT' = o.lut
           /\ result' = o.result
           /\ warned' = o.warned
    /\ calls' = Append(calls, "write_LUT_SonySPI3D")
    /\ pc' = "written"
    /\ UNCHANGED <<decimals, path, method>>

\* read_LUT_SonySPI3D(path)
ReadSPI3D ==
    /\ \/ pc = "written"
       \/ pc = "start" /\ LUT = NoLUT
    /\ result' = read_LUT_SonySPI3D(path, disk)
    /\ calls' = Append(calls, "read_LUT_SonySPI3D")
    /\ pc' = "read"
    /\ UNCHANGED <<disk, LUT, decimals, path, method, warned>>

SPI3DNext == WriteSPI3D \/ ReadSPI3D

SpecSPI3D == SPI3DInit /\ [][SPI3DNext]_vars

\* ------------------------------------------- Sony .spi3d: what is checked
AtPrecision3(row, d) ==
    <<AtPrecision(row[1], d), AtPrecision(row[2], d), AtPrecision(row[3], d)>>

\* positions of the 3-token and of the 6-token lines of a file
SizeLines(file) ==
    {n \in 1 .. Len(file.lines) :
        file.lines[n].t = "toks" /\ Len(file.lines[n].toks) = 3}

DataLines(file) ==
    {n \in 1 .. Len(file.lines) :
        file.lines[n].t = "toks" /\ Len(file.lines[n].toks) = 6}

DeclaredSize(file) ==
    file.lines[CHOOSE n \in SizeLines(file) : TRUE].toks[1].m

RowIndex(line) == <<line.toks[1].m, line.toks[2].m, line.toks[3].m>>

RowValues(line) ==
    <<as_float(line.toks[4]), as_float(line.toks[5]), as_float(line.toks[6])>>

LinesAt(file, g) == {n \in DataLines(file) : RowIndex(file.lines[n]) = g}

\* the index triples of the data rows are the grid points, each exactly once
IsExactGrid(file) ==
    /\ file.exists
    /\ Cardinality(SizeLines(file)) = 1
    /\ Cardinality(DataLines(file)) = DeclaredSize(file) ^ 3
    /\ \A g \in Grid(DeclaredSize(file)) : Cardinality(LinesAt(file, g)) = 1

\* positions of the size lines whose three tokens are not the same text
NonUniformSizeLines(file) ==
    {n \in SizeLines(file) :
        \E a, b \in 1 .. 3 : file.lines[n].toks[a] # file.lines[n].toks[b]}

\* a valid file: one size line repeating one token, and the grid points
IsValidFile(file) == IsExactGrid(file) /\ NonUniformSizeLines(file) = {}

\* position of the k-th data row of a file
RECURSIVE KthDataLine(_, _, _)
KthDataLine(file, k, from) ==
    IF from \in DataLines(file)
    THEN IF k = 1 THEN from ELSE KthDataLine(file, k - 1, from + 1)
    ELSE KthDataLine(file, k, from + 1)

\* the same file with its data rows put in (axis 0, axis 1, axis 2) order
InGridOrder(file) ==
    LET size == DeclaredSize(file)
        first == KthDataLine(file, 1, 1)
    IN  File([n \in 1 .. Len(file.lines) |->
                IF n \in DataLines(file)
                THEN file.lines[CHOOSE m \in LinesAt(file,
                                         CIndex(size, n - first)) : TRUE]
                ELSE file.lines[n]])

SPI3DRoundTrip ==
    /\ pc = "read"
    /\ LUT.kind = "LUT3D"
    /\ ~is_domain_explicit(LUT)
    /\ LUT.domain = DefaultDomain
    /\ LUT.size \in 2 .. 256

SPI3DTableRoundTrips ==
    /\ result.status = "ok"
    /\ result.value.kind = "LUT3D"
    /\ result.value.size = LUT.size
    /\ \A g \in Grid(LUT.size) :
          result.value.table[g] = AtPrecision3(LUT.table[g], decimals)

SPI3DFileRead == pc = "read" /\ LUT = NoLUT

\* C4: reading a .spi3d file whose rows are the grid points in any order
\* succeeds, the entry at (i, j, k) is the r g b triple of the row whose
\* index tokens are i j k, and the LUT returned is the one returned for the
\* same file with its rows in (axis 0, axis 1, axis 2) order.
C4_OrderIndependent ==
    (SPI3DFileRead /\ IsValidFile(disk)) =>
        /\ result.status = "ok"
        /\ result.value.size = DeclaredSize(disk)
        /\ \A n \in DataLines(disk) :
              result.value.table[RowIndex(disk.lines[n])] =
                  RowValues(disk.lines[n])
        /\ result = read_LUT_SonySPI3D(path, InGridOrder(disk))

C4_Witness ==
    /\ SPI3DFileRead
    /\ IsValidFile(disk)
    /\ DeclaredSize(disk) = 3
    /\ RowIndex(disk.lines[KthDataLine(disk, 1, 1)]) = <<2, 2, 2>>
    /\ RowIndex(disk.lines[KthDataLine(disk, 2, 1)]) = <<2, 2, 1>>
    /\ result.status = "ok"
    /\ disk # InGridOrder(disk)

\* C10 as claimed: reading a .spi3d file whose index triples are not the
\* grid points of the declared size, each exactly once, fails with a
\* validation failure (an assertion failure) and returns no LUT.
C10_Claimed ==
    (SPI3DFileRead /\ disk.exists /\ Cardinality(SizeLines(disk)) = 1
        /\ ~IsExactGrid(disk)) =>
        result = Raise("AssertionError")

SPI3DWritten == pc = "written" /\ calls = <<"write_LUT_SonySPI3D">>

\* C14: write_LUT_SonySPI3D writes a file only for a LUT3D whose domain is
\* implicit and exactly [[0, 0, 0], [1, 1, 1]], and then returns True; a
\* LUT1D, a LUT3x1D, a LUT3D with an explicit domain and a LUT3D with another
\* implicit domain each fail with the validation failure and leave no file.
C14_WriteValidation ==
    (SPI3DWritten /\ LUT.kind # "LUTSequence") =>
        /\ disk.exists <=>
               /\ LUT.kind = "LUT3D"
               /\ Len(LUT.domain) = 2
               /\ LUT.domain = <<<<0, 0, 0>>, <<Unit, Unit, Unit>>>>
        /\ disk.exists => result = Ok(TRUE)
        /\ ~disk.exists => result = Raise("AssertionError")

C14_Witness ==
    /\ SPI3DWritten
    /\ LUT.kind = "LUT3D"
    /\ LUT.domain = WideDomain
    /\ result = Raise("AssertionError")
    /\ ~disk.exists

\* C16: write_LUT_SonySPI3D given a LUTSequence warns the caller and then
\* does what it does for the first element alone: the outcome and the file
\* are those of writing that element, whatever the later elements are, and
\* the sequence itself is never the reason of a failure.
C16_SequenceFirstElement ==
    (SPI3DWritten /\ LUT.kind = "LUTSequence" /\ Len(LUT.seq) >= 1) =>
        LET alone == write_LUT_SonySPI3D(LUT.seq[1], decimals)
        IN  /\ warned
            /\ result = alone.result
            /\ disk = IF alone.opened THEN File(alone.lines) ELSE NoFile
            /\ result.status = "raise" =>
                   /\ result = Raise("AssertionError")
                   /\ \/ LUT.seq[1].kind # "LUT3D"
                      \/ LUT.seq[1].domain # DefaultDomain

C16_Witness ==
    /\ SPI3DWritten
    /\ LUT.kind = "LUTSequence"
    /\ Len(LUT.seq) = 3
    /\ LUT.seq[1].table = OneHot(2, <<0, 0, 1>>)
    /\ LUT.seq[2].size = 3
    /\ LUT.seq[3].kind = "LUT3x1D"
    /\ warned
    /\ result = Ok(TRUE)
    /\ disk = File(spi3d_lines(LUT.seq[1], decimals))

\* C17: the file written by write_LUT_SonySPI3D for a LUT3D of size S is the
\* line SPILUT 1.0, the line 3 3, the line S S S, then S^3 rows i j k r g b,
\* the row of grid point (i, j, k) at position i * S^2 + j * S + k (every
\* grid point once, axis 2 changing fastest) carrying table[i, j, k] at the
\* chosen number of decimals, then one line "# comment" per comment in the
\* original order, and nothing else.
C17_FileLayout ==
    (SPI3DWritten /\ LUT.kind = "LUT3D" /\ disk.exists) =>
        LET S == LUT.size
            rows == S * S * S
            lines == disk.lines
        IN  /\ Len(lines) = 3 + rows + Len(LUT.comments)
            /\ lines[1] = TokenLine(<<Word("SPILUT"), Num(10, 1)>>)
            /\ lines[2] = TokenLine(<<Num(3, 0), Num(3, 0)>>)
            /\ lines[3] = TokenLine(<<Num(S, 0), Num(S, 0), Num(S, 0)>>)
            /\ \A g \in Grid(S) :
                  LET line == lines[3 + g[1] * S * S + g[2] * S + g[3] + 1]
                  IN  /\ line.t = "toks"
                      /\ Len(line.toks) = 6
                      /\ \A c \in 1 .. 3 :
                            /\ line.toks[c] = Num(g[c], 0)
                            /\ line.toks[3 + c] =
                                   format_float(LUT.table[g][c], decimals)
            /\ \A n \in 1 .. Len(LUT.comments) :
                  lines[3 + rows + n] =
                      TextLine(<<"#", " ">> \o LUT.comments[n])

C17_Witness ==
    /\ SPI3DWritten
    /\ LUT.kind = "LUT3D"
    /\ LUT.size = 3
    /\ LUT.table = OneHot(3, <<0, 1, 2>>)
    /\ Len(LUT.comments) = 2
    /\ disk.exists
    /\ Len(disk.lines) = 32
    /\ RowIndex(disk.lines[9]) = <<0, 1, 2>>
    /\ disk.lines[9].toks[4] = format_float(Unit, decimals)

\* C19 as claimed, for read_LUT_SonySPI3D: reading a file with no 3-token
\* size line fails and returns no LUT, whatever data rows the file holds.
C19_Claimed ==
    (SPI3DFileRead /\ disk.exists /\ SizeLines(disk) = {}) =>
        result.status = "raise"

\* a file with no size line whose rows are the 8 grid points of size 2 is
\* read as a LUT3D of size 2
C19_DefaultSizeRead ==
    /\ SPI3DFileRead
    /\ disk.exists
    /\ SizeLines(disk) = {}
    /\ Cardinality(DataLines(disk)) = 8
    /\ result.status = "ok"
    /\ result.value.kind = "LUT3D"
    /\ result.value.size = 2

Minimum(S) == CHOOSE n \in S : \A m \in S : n <= m
Maximum(S) == CHOOSE n \in S : \A m \in S : n >= m

\* the size given by the first and by the last 3-token line of a file
FirstSize(file) == file.lines[Minimum(SizeLines(file))].toks[1].m
LastSize(file) == file.lines[Maximum(SizeLines(file))].toks[1].m

\* the data rows of a file are the grid points of a size, each exactly once
IsGridOf(file, size) ==
    /\ Cardinality(DataLines(file)) = size ^ 3
    /\ \A g \in Grid(size) : Cardinality(LinesAt(file, g)) = 1

HasUniformSizeLines(file) ==
    file.exists /\ SizeLines(file) # {} /\ NonUniformSizeLines(file) = {}

\* C21 as claimed: the size read_LUT_SonySPI3D uses to validate the indexes
\* and to shape the table is the one of the first 3-token line: a file whose
\* rows are the grid of that size is read with that size, and a later
\* 3-token line changes nothing.
C21_Claimed ==
    (SPI3DFileRead /\ HasUniformSizeLines(disk)) =>
        /\ IsGridOf(disk, FirstSize(disk)) => result.status = "ok"
        /\ result.status = "ok" => result.value.size = FirstSize(disk)

\* what the read does: the last 3-token line gives the size
C21_LastSizeLine ==
    (SPI3DFileRead /\ HasUniformSizeLines(disk)
        /\ Cardinality(DataLines(disk)) > 0) =>
        IF IsGridOf(disk, LastSize(disk))
        THEN result.status = "ok" /\ result.value.size = LastSize(disk)
        ELSE result = Raise("AssertionError")

\* a file whose first size line says 3 and whose last says 2 is read with
\* size 2
C21_LaterLineWins ==
    /\ SPI3DFileRead
    /\ HasUniformSizeLines(disk)
    /\ FirstSize(disk) = 3
    /\ LastSize(disk) = 2
    /\ result.status = "ok"
    /\ result.value.size = 2

\* C22 for write_LUT_SonySPI3D: no call changes the caller's value
C22_SPI3DCallerValue ==
    [][(pc = "start" /\ pc' = "written") => LUT' = LUT]_vars

\* C23 for write_LUT_SonySPI3D: a failing call leaves no file and leaves the
\* caller's value as it was
C23_SPI3DFailedWrite ==
    [][(pc = "start" /\ pc' = "written" /\ result'.status = "raise") =>
          /\ disk' = disk
          /\ LUT' = LUT]_vars

\* ------------------------------------------------ Resolve .cube: inputs
Table1D(size) == array([n \in 1 .. size |-> <<3 * n>>])

LUT1Ds ==
    {MakeLUT("LUT1D", Table1D(size), <<"My Curve">>, <<<<0>>, <<Unit>>>>, c,
            size) :
        size \in Sizes, c \in FewCommentLists}

SmallLUT3Ds ==
    {MakeLUT("LUT3D", t, Name, d, c, 2) :
        t \in {Ramp(2), OneHot(2, <<0, 0, 1>>)},
        d \in {DefaultDomain, WideDomain, MixedDomain},
        c \in FewCommentLists}

\* a LUTOperatorMatrix: neither a LUT1D, a LUT3x1D nor a LUT3D
LUTOperatorMatrix == [kind |-> "LUTOperatorMatrix"]

\* sequences that are not a shaper followed by a cube
OddSequences ==
    LET cube == MakeLUT("LUT3D", Ramp(2), Name, DefaultDomain, <<>>, 2)
        shaper == MakeLUT("LUT3x1D", Table3x1D(2), <<"My Shaper">>,
                          DefaultDomain, <<>>, 2)
        curve == MakeLUT("LUT1D", Table1D(2), <<"My Curve">>,
                         <<<<0>>, <<Unit>>>>, <<>>, 2)
    IN  {LUTSequence(q) :
            q \in {<<>>, <<shaper>>, <<cube>>, <<shaper, cube, cube>>,
                   <<shaper, cube, shaper, cube>>, <<cube, shaper>>,
                   <<cube, cube>>, <<shaper, shaper>>, <<curve, curve>>,
                   <<shaper, LUTOperatorMatrix>>,
                   <<LUTOperatorMatrix, cube>>,
                   <<LUTOperatorMatrix, cube, cube>>}}

\* a shaper and a cube that each carry comments without outer whitespace
CommentedSequences ==
    {LUTSequence(<<MakeLUT("LUT3x1D", Table3x1D(2), <<"My Shaper">>,
                           DefaultDomain, a, 2),
                   MakeLUT("LUT3D", Ramp(2), Name, DefaultDomain, b, 2)>>) :
        a \in {<<>>, <<<<"a">>>>}, b \in {<<>>, <<<<"a", "a">>>>}}

CubeWriteInputs ==
    LUT3Ds({DefaultDomain, WideDomain, MixedDomain})
    \cup {MakeLUT("LUT3D", Ramp(2), Name, d, <<>>, 2) :
            d \in {ExplicitDomain, CrossedDomain}}
    \cup LUT3x1Ds({DefaultDomain, WideDomain, MixedDomain})
    \cup LUT1Ds
    \cup {LUTSequence(<<a, b>>) :
            a \in LUT1Ds \cup LUT3x1Ds({DefaultDomain, WideDomain}),
            b \in SmallLUT3Ds}
    \cup {MakeLUT("LUT3D", Ramp(2), Name, HalfDomain, <<>>, 2)}
    \cup CommentedSequences
    \cup OddSequences
    \cup {LUTOperatorMatrix}

\* n data rows, row r (counted from 1) carrying r, r + 1, r + 2 at 1 decimal
CubeRows(n) ==
    array([r \in 1 .. n |->
              TokenLine(<<Num(r, 1), Num(r + 1, 1), Num(r + 2, 1)>>)])

CubeDirectives(kind, n, size) ==
    LET d1 == <<TokenLine(<<Word("LUT_1D_SIZE"), Num(n, 0)>>),
                TokenLine(<<Word("LUT_1D_INPUT_RANGE"), Num(0, 1),
                            Num(30, 1)>>)>>
        d3 == <<TokenLine(<<Word("LUT_3D_SIZE"), Num(size, 0)>>)>>
    IN  CASE kind = "3x1D" -> d1
          [] kind = "3D" -> d3
          [] kind = "3x1D+3D" -> d1 \o d3
          [] kind = "3D+3x1D" -> d3 \o d1
          [] OTHER -> <<>>

\* a file already at path when a writer is called
OldCubeFile == File(CubeDirectives("3D", 2, 2) \o CubeRows(8))

CubeRowCount(kind, n, size) ==
    CASE kind = "3x1D" -> n
      [] kind = "3D" -> size * size * size
      [] kind \in {"3x1D+3D", "3D+3x1D"} -> n + size * size * size
      [] OTHER -> n

CubeTitles == {<<>>, <<TokenLine(<<Word("TITLE"), Quoted(Name)>>)>>}

\* files with the declared number of rows, one row less and one row more
CubeFiles ==
    {File(t \o c \o CubeDirectives(kind, n, size)
             \o CubeRows(CubeRowCount(kind, n, size) + delta) \o c) :
        t \in CubeTitles, c \in ForeignComments,
        kind \in {"3x1D", "3D", "3x1D+3D", "3D+3x1D", "none"},
        n \in Sizes, size \in Sizes, delta \in {-1, 0, 1}}

\* ----------------------------------------------- Resolve .cube: the program
CubeInit ==
    /\ pc = "start"
    /\ result = NoResult
    /\ calls = <<>>
    /\ warned = FALSE
    /\ path = <<"lut", ".", "cube">>
    /\ method = "None"
    /\ \/ /\ disk \in {NoFile, OldCubeFile}
          /\ LUT \in CubeWriteInputs
          /\ decimals \in 0 .. MaxDecimals
       \/ /\ disk \in CubeFiles
          /\ LUT = NoLUT
          /\ decimals = 0

\* write_LUT_ResolveCube(LUT, path, decimals)
WriteResolveCube ==
    /\ pc = "start"
    /\ LUT # NoLUT
    /\ LET o == write_LUT_ResolveCube(LUT, decimals)
       IN  /\ disk' = IF o.opened THEN File(o.lines) ELSE disk
           /\ LUT' = o.lut
           /\ result' = o.result
           /\ warned' = o.warned
    /\ calls' = Append(calls, "write_LUT_ResolveCube")
    /\ pc' = "written"
    /\ UNCHANGED <<decimals, path, method>>

\* read_LUT_ResolveCube(path)
ReadResolveCube ==
    /\ \/ pc = "written"
       \/ pc = "start" /\ LUT = NoLUT
    /\ result' = read_LUT_ResolveCube(path, disk)
    /\ calls' = Append(calls, "read_LUT_ResolveCube")
    /\ pc' = "read"
    /\ UNCHANGED <<disk, LUT, decimals, path, method, warned>>

CubeNext == WriteResolveCube \/ ReadResolveCube

SpecCube == CubeInit /\ [][CubeNext]_vars

\* ------------------------------------------ Resolve .cube: what is checked
IsCubeData(line) == line.t = "toks" /\ IsNum(line.toks[1])

\* the data rows of a file, in file order
CubeDataLines(file) == SelectSeq(file.lines, IsCubeData)

CubeRowValues(line) ==
    <<as_float(line.toks[1]), as_float(line.toks[2]), as_float(line.toks[3])>>

DirectiveLines(file, keyword) ==
    {n \in 1 .. Len(file.lines) :
        file.lines[n].t = "toks" /\ file.lines[n].toks[1] = Word(keyword)}

HasDirective(file, keyword) == DirectiveLines(file, keyword) # {}

DirectiveValue(file, keyword) ==
    file.lines[CHOOSE n \in DirectiveLines(file, keyword) : TRUE].toks[2].m

IsComposite(file) ==
    HasDirective(file, "LUT_1D_SIZE") /\ HasDirective(file, "LUT_3D_SIZE")

\* number of shaper rows that come before the cube rows
ShaperRows(file) ==
    IF IsComposite(file) THEN DirectiveValue(file, "LUT_1D_SIZE") ELSE 0

CubeFileRead == pc = "read" /\ LUT = NoLUT /\ disk.exists

\* the file declares LUT_3D_SIZE S and holds S^3 cube rows
HasWholeCube(file) ==
    /\ HasDirective(file, "LUT_3D_SIZE")
    /\ Len(CubeDataLines(file)) =
           ShaperRows(file) + DirectiveValue(file, "LUT_3D_SIZE") ^ 3

\* the LUT3D a read returned, bare or second in the sequence
CubeOf(value) ==
    IF value.kind = "LUTSequence" THEN value.seq[2] ELSE value

\* C1: reading a .cube file that declares LUT_3D_SIZE S and holds S^3 cube
\* rows (after the shaper rows of a composite file) returns a LUT3D whose
\* entry at grid index (i, j, k) is the triple of cube row i + S*j + S*S*k.
C1_FirstIndexFastest ==
    (CubeFileRead /\ HasWholeCube(disk)) =>
        /\ result.status = "ok"
        /\ LET S == DirectiveValue(disk, "LUT_3D_SIZE")
               cube == CubeOf(result.value)
               rows == CubeDataLines(disk)
           IN  /\ cube.kind = "LUT3D"
               /\ cube.size = S
               /\ \A g \in Grid(S) :
                     cube.table[g] =
                         CubeRowValues(rows[ShaperRows(disk) + 1 + g[1]
                                            + S * g[2] + S * S * g[3]])

C1_Witness ==
    /\ CubeFileRead
    /\ HasWholeCube(disk)
    /\ ~IsComposite(disk)
    /\ DirectiveValue(disk, "LUT_3D_SIZE") = 4
    /\ result.status = "ok"
    /\ result.value.table[<<0, 0, 1>>] =
           CubeRowValues(CubeDataLines(disk)[17])
    /\ result.value.table[<<0, 0, 1>>] #
           CubeRowValues(CubeDataLines(disk)[2])

CubeRoundTrip ==
    /\ pc = "read"
    /\ LUT.kind = "LUT3D"
    /\ ~is_domain_explicit(LUT)
    /\ LUT.size \in 2 .. 256

\* the file holds the cube first index fastest and the read returns the cube
CubeTableRoundTrips ==
    /\ result.status = "ok"
    /\ result.value.kind = "LUT3D"
    /\ result.value.size = LUT.size
    /\ Len(CubeDataLines(disk)) = LUT.size ^ 3
    /\ \A g \in Grid(LUT.size) :
          /\ result.value.table[g] = AtPrecision3(LUT.table[g], decimals)
          /\ CubeRowValues(CubeDataLines(disk)[1 + g[1] + LUT.size * g[2]
                                               + LUT.size * LUT.size * g[3]])
                 = AtPrecision3(LUT.table[g], decimals)

\* C3 as claimed: writing any LUT3D with an implicit domain to .cube puts
\* table[i, j, k] in row i + S*j + S*S*k and reading it back returns the
\* same size and the same values at the chosen precision.
C3_Claimed == CubeRoundTrip => CubeTableRoundTrips

\* C3 amended: writing a LUT3D whose implicit domain holds exactly two
\* distinct values to .cube puts table[i, j, k] in row i + S*j + S*S*k and
\* reading it back returns the same size and the same values at the chosen
\* precision.
C3_RoundTrip ==
    (CubeRoundTrip /\ Cardinality(domain_values(LUT)) = 2) =>
        CubeTableRoundTrips

C3_Witness ==
    /\ CubeRoundTrip
    /\ LUT.domain = WideDomain
    /\ LUT.size = 3
    /\ LUT.table = OneHot(3, <<0, 1, 2>>)
    /\ decimals = 1
    /\ result.status = "ok"
    /\ result.value.table[<<0, 1, 2>>] = AtPrecision3(Hot, 1)
    /\ CubeRowValues(CubeDataLines(disk)[22]) = AtPrecision3(Hot, 1)

\* a LUTSequence value that is a shaper followed by a cube
IsShaperCubePair(value) ==
    /\ Len(value.seq) = 2
    /\ value.seq[1].kind \in {"LUT1D", "LUT3x1D"}
    /\ value.seq[2].kind = "LUT3D"

\* C12: write_LUT_ResolveCube called with a LUTSequence that is not exactly
\* a LUT1D or LUT3x1D followed by a LUT3D fails with the validation failure
\* and leaves the file at path as it was, absent or with its old lines; a
\* sequence it writes is such a pair.
C12_SequenceArity ==
    [][(pc = "start" /\ pc' = "written" /\ LUT.kind = "LUTSequence") =>
          /\ ~IsShaperCubePair(LUT) =>
                 /\ result' = Raise("AssertionError")
                 /\ disk' = disk
                 /\ LUT' = LUT
          /\ result'.status = "ok" => IsShaperCubePair(LUT)]_vars

C12_Witness ==
    /\ pc = "written"
    /\ LUT.kind = "LUTSequence"
    /\ Len(LUT.seq) = 3
    /\ LUT.seq[1].kind = "LUT3x1D"
    /\ LUT.seq[2].kind = "LUT3D"
    /\ result = Raise("AssertionError")
    /\ disk = OldCubeFile

\* C5: a successful read of a .cube file returns a LUTSequence exactly when
\* the file has both LUT_1D_SIZE n and LUT_3D_SIZE S; the sequence holds a
\* LUT3x1D of size n made of the first n data rows and a LUT3D of size S
\* made of all the rows after them; a file with only LUT_1D_SIZE gives a
\* bare LUT3x1D of all its rows, one with only LUT_3D_SIZE a bare LUT3D;
\* and files holding the declared rows are read successfully.
C5_SequenceIffBoth ==
    CubeFileRead =>
        LET has_1D == HasDirective(disk, "LUT_1D_SIZE")
            has_3D == HasDirective(disk, "LUT_3D_SIZE")
            rows == CubeDataLines(disk)
            value == result.value
        IN  /\ ((has_3D /\ HasWholeCube(disk))
                  \/ (has_1D /\ ~has_3D /\ Len(rows) > 0))
                => result.status = "ok"
            /\ result.status = "ok" =>
                /\ (value.kind = "LUTSequence") <=> (has_1D /\ has_3D)
                /\ (has_1D /\ has_3D) =>
                      LET n == DirectiveValue(disk, "LUT_1D_SIZE")
                          S == DirectiveValue(disk, "LUT_3D_SIZE")
                      IN  /\ Len(value.seq) = 2
                          /\ value.seq[1].kind = "LUT3x1D"
                          /\ value.seq[1].size = n
                          /\ value.seq[1].table =
                                 [r \in 1 .. n |-> CubeRowValues(rows[r])]
                          /\ value.seq[2].kind = "LUT3D"
                          /\ value.seq[2].size = S
                          /\ Len(rows) = n + S ^ 3
                          /\ \A g \in Grid(S) :
                                value.seq[2].table[g] =
                                    CubeRowValues(rows[n + 1 + g[1] + S * g[2]
                                                       + S * S * g[3]])
                /\ (has_1D /\ ~has_3D) =>
                      /\ value.kind = "LUT3x1D"
                      /\ value.table =
                             [r \in 1 .. Len(rows) |-> CubeRowValues(rows[r])]
                /\ (~has_1D /\ has_3D) => value.kind = "LUT3D"

C5_Witness ==
    /\ CubeFileRead
    /\ IsComposite(disk)
    /\ DirectiveValue(disk, "LUT_1D_SIZE") = 3
    /\ DirectiveValue(disk, "LUT_3D_SIZE") = 2
    /\ result.status = "ok"
    /\ result.value.kind = "LUTSequence"
    /\ Len(result.value.seq) = 2
    /\ result.value.seq[1].size = 3
    /\ result.value.seq[2].size = 2
    /\ Len(CubeDataLines(disk)) = 11

\* a value accepted by write_LUT_ResolveCube has been written and read back
CubeWrittenThenRead ==
    /\ pc = "read"
    /\ calls = <<"write_LUT_ResolveCube", "read_LUT_ResolveCube">>
    /\ LUT.kind \in {"LUT3x1D", "LUT3D", "LUTSequence"}
    /\ cube_validation(LUT) = "none"

stripped(comments) == [n \in 1 .. Len(comments) |-> strip(comments[n])]

\* C18 as claimed: writing a LUT3x1D, a LUT3D or a shaper+cube sequence to
\* .cube and reading it back returns, for the bare LUT and for each element
\* of the sequence, the comments of that LUT verbatim and in order.
C18_Claimed ==
    CubeWrittenThenRead =>
        /\ result.status = "ok"
        /\ IF LUT.kind = "LUTSequence"
           THEN /\ result.value.kind = "LUTSequence"
                /\ \A n \in 1 .. 2 :
                      result.value.seq[n].comments = LUT.seq[n].comments
           ELSE result.value.comments = LUT.comments

\* what the read returns: the comments with their outer whitespace removed,
\* and for a sequence none on the shaper and those of the shaper followed by
\* those of the cube on the cube
C18_CommentsRead ==
    CubeWrittenThenRead =>
        /\ result.status = "ok"
        /\ IF LUT.kind = "LUTSequence"
           THEN /\ result.value.seq[1].comments = <<>>
                /\ result.value.seq[2].comments =
                       stripped(LUT.seq[1].comments \o LUT.seq[2].comments)
           ELSE result.value.comments = stripped(LUT.comments)

\* a sequence whose comments have no outer whitespace comes back with the
\* comment of the shaper on the cube
C18_Misattributed ==
    /\ CubeWrittenThenRead
    /\ LUT.kind = "LUTSequence"
    /\ LUT.seq[1].comments = <<<<"a">>>>
    /\ LUT.seq[2].comments = <<<<"a", "a">>>>
    /\ result.value.seq[1].comments = <<>>
    /\ result.value.seq[2].comments = <<<<"a">>, <<"a", "a">>>>

\* C19 for read_LUT_ResolveCube: reading a file with neither a LUT_1D_SIZE
\* nor a LUT_3D_SIZE directive fails and returns no LUT; with well-formed
\* rows the failure is the unbound local variable of the return statement.
C19_CubeNoDirective ==
    (CubeFileRead /\ ~HasDirective(disk, "LUT_1D_SIZE")
        /\ ~HasDirective(disk, "LUT_3D_SIZE")) =>
        result = Raise("UnboundLocalError")

\* the number of data rows the directives of a file call for
RequiredRows(file) ==
    (IF HasDirective(file, "LUT_1D_SIZE")
     THEN DirectiveValue(file, "LUT_1D_SIZE") ELSE 0)
    + (IF HasDirective(file, "LUT_3D_SIZE")
       THEN DirectiveValue(file, "LUT_3D_SIZE") ^ 3 ELSE 0)

DeclaresSize(file) ==
    HasDirective(file, "LUT_1D_SIZE") \/ HasDirective(file, "LUT_3D_SIZE")

\* C20 as claimed: reading a .cube file fails whenever the number of data
\* rows differs from what the declared sizes call for (n for a shaper, S^3
\* for a cube, n + S^3 for both), and a LUT it returns has the declared size.
C20_Claimed ==
    (CubeFileRead /\ DeclaresSize(disk)) =>
        /\ Len(CubeDataLines(disk)) # RequiredRows(disk) =>
               result.status = "raise"
        /\ result.status = "ok" =>
               /\ result.value.kind = "LUT3x1D" =>
                      result.value.size = DirectiveValue(disk, "LUT_1D_SIZE")
               /\ result.value.kind = "LUT3D" =>
                      result.value.size = DirectiveValue(disk, "LUT_3D_SIZE")
               /\ result.value.kind = "LUTSequence" =>
                      /\ result.value.seq[1].size =
                             DirectiveValue(disk, "LUT_1D_SIZE")
                      /\ result.value.seq[2].size =
                             DirectiveValue(disk, "LUT_3D_SIZE")

\* what the read does: a file that declares a cube is rejected on a wrong
\* number of rows, a file that declares a shaper alone is read with every
\* row it holds
C20_RowCount ==
    (CubeFileRead /\ DeclaresSize(disk)) =>
        IF HasDirective(disk, "LUT_3D_SIZE")
        THEN IF Len(CubeDataLines(disk)) # RequiredRows(disk)
             THEN result = Raise("ValueError")
             ELSE result.status = "ok"
        ELSE /\ result.status = "ok"
             /\ result.value.kind = "LUT3x1D"
             /\ result.value.size = Len(CubeDataLines(disk))

\* a shaper-only file declaring 3 rows and holding 4 is read as a LUT3x1D of
\* size 4
C20_SurplusRowsRead ==
    /\ CubeFileRead
    /\ ~HasDirective(disk, "LUT_3D_SIZE")
    /\ HasDirective(disk, "LUT_1D_SIZE")
    /\ DirectiveValue(disk, "LUT_1D_SIZE") = 3
    /\ Len(CubeDataLines(disk)) = 4
    /\ result.status = "ok"
    /\ result.value.size = 4

\* new is the LUT3x1D promotion of the LUT1D old: each channel is the curve
IsPromotionOf(new, old) ==
    /\ new.kind = "LUT3x1D"
    /\ new.name = old.name
    /\ new.comments = old.comments
    /\ new.size = old.size
    /\ Len(new.table) = Len(old.table)
    /\ \A n \in 1 .. Len(old.table) :
          new.table[n] = <<old.table[n][1], old.table[n][1], old.table[n][1]>>
    /\ Len(new.domain) = Len(old.domain)
    /\ \A n \in 1 .. Len(old.domain) :
          new.domain[n] =
              <<old.domain[n][1], old.domain[n][1], old.domain[n][1]>>

C23_Claimed ==
    [][(pc = "start" /\ pc' = "written" /\ result'.status = "raise") =>
          /\ disk' = disk
          /\ LUT' = LUT]_vars

\* what a failing call does: the file is never touched, and the caller's
\* value is changed exactly when it is a LUT1D followed by a LUT3D, whose
\* LUT1D is promoted before the domains and sizes are validated
C23_FailedWrite ==
    [][(pc = "start" /\ pc' = "written" /\ result'.status = "raise") =>
          /\ disk' = disk
          /\ LUT' # LUT <=>
                 /\ LUT.kind = "LUTSequence"
                 /\ IsShaperCubePair(LUT)
                 /\ LUT.seq[1].kind = "LUT1D"]_vars

\* a refused sequence whose LUT1D has been promoted all the same
C23_PromotedThenRefused ==
    /\ pc = "written"
    /\ result = Raise("AssertionError")
    /\ ~disk.exists
    /\ LUT.kind = "LUTSequence"
    /\ Len(LUT.seq) = 2
    /\ LUT.seq[1].kind = "LUT3x1D"
    /\ LUT.seq[1].name = <<"My Curve">>
    /\ LUT.seq[2].domain = MixedDomain

\* a bare LUT3x1D or LUT3D accepted by the writer, written and read back
BareCubeRoundTrip ==
    CubeWrittenThenRead /\ LUT.kind \in {"LUT3x1D", "LUT3D"}

RangeKeyword(lut) ==
    IF lut.kind = "LUT3D" THEN "LUT_3D_INPUT_RANGE" ELSE "LUT_1D_INPUT_RANGE"

\* the directive is in the file exactly when the domain is not the default
\* one, and then it carries the minimum and the maximum of the first channel
RangeDirectiveWritten ==
    /\ HasDirective(disk, RangeKeyword(LUT)) <=> LUT.domain # DefaultDomain
    /\ HasDirective(disk, RangeKeyword(LUT)) =>
           LET n == CHOOSE n \in DirectiveLines(disk, RangeKeyword(LUT)) : TRUE
           IN  /\ Cardinality(DirectiveLines(disk, RangeKeyword(LUT))) = 1
               /\ disk.lines[n].toks[2] =
                      format_float(LUT.domain[1][1], decimals)
               /\ disk.lines[n].toks[3] =
                      format_float(LUT.domain[2][1], decimals)

\* C24 as claimed: a LUT3x1D or LUT3D accepted by write_LUT_ResolveCube is
\* read back with a domain equal to its own in every channel; the
\* INPUT_RANGE directive is written exactly when the domain is not
\* [[0, 0, 0], [1, 1, 1]].
C24_Claimed ==
    BareCubeRoundTrip =>
        /\ result.status = "ok"
        /\ result.value.domain = LUT.domain
        /\ RangeDirectiveWritten

\* what the read returns: the default domain when no directive was written,
\* otherwise the minimum and the maximum of the first channel, at the chosen
\* number of decimals, in all three channels
C24_DomainRead ==
    BareCubeRoundTrip =>
        /\ result.status = "ok"
        /\ RangeDirectiveWritten
        /\ result.value.domain =
               IF LUT.domain = DefaultDomain THEN DefaultDomain
               ELSE LET lo == AtPrecision(LUT.domain[1][1], decimals)
                        hi == AtPrecision(LUT.domain[2][1], decimals)
                    IN  <<<<lo, lo, lo>>, <<hi, hi, hi>>>>

\* a LUT3D whose channels have different ranges is accepted and read back
\* with the range of its first channel in every channel
C24_ChannelsLost ==
    /\ BareCubeRoundTrip
    /\ LUT.domain = <<<<0, Unit, 0>>, <<Unit, 0, Unit>>>>
    /\ result.status = "ok"
    /\ result.value.domain = <<<<0, 0, 0>>, <<Unit, Unit, Unit>>>>

\* ------------------------------------------------- dispatch layer: inputs
Paths ==
    {<<"lut", ".", "cube">>, <<"lut", ".", "CUBE">>,
     <<"my", ".", "lut", ".", "Cube">>, <<"lut", ".", "spi1d">>,
     <<"lut", ".", "spi3d">>, <<"lut", ".", "SPI3D">>,
     <<"lut", ".", "spimtx">>, <<"lut", ".", "csp">>, <<"lut", ".", "txt">>,
     <<"cube">>, <<".", "cube">>}

Methods ==
    {"None", "Iridas Cube", "iridas cube", "IRIDAS CUBE", "Resolve Cube",
     "RESOLVE CUBE", "Sony SPI1D", "Sony SPI3D", "SONY SPI3D", "Sony SPImtx",
     "Cinespace"}

\* a shaper and a cube, a cube, a shaper, each with the declared rows or
\* one row less, and a .spi3d file
DispatchFiles ==
    {File(CubeDirectives(kind, 3, 2)
             \o CubeRows(CubeRowCount(kind, 3, 2) + delta)) :
        kind \in {"3x1D+3D", "3D", "3x1D"}, delta \in {-1, 0}}
    \cup {File(SPI3DHeader(2) \o CanonRows(2, 1))}
    \cup {NoFile}

DispatchLUTs ==
    LET cube == MakeLUT("LUT3D", Ramp(2), Name, DefaultDomain, <<>>, 2)
        shaper == MakeLUT("LUT3x1D", Table3x1D(3), <<"My Shaper">>,
                          DefaultDomain, <<>>, 3)
    IN  {cube, shaper, LUTSequence(<<shaper, cube>>),
         LUTSequence(<<cube, shaper>>)}

\* ------------------------------------------- dispatch layer: the program
DispatchInit ==
    /\ pc = "start"
    /\ result = NoResult
    /\ calls = <<>>
    /\ warned = FALSE
    /\ path \in Paths
    /\ method \in Methods
    /\ \/ /\ disk = NoFile
          /\ LUT \in DispatchLUTs
          /\ decimals \in 0 .. MaxDecimals
       \/ /\ disk \in DispatchFiles
          /\ LUT = NoLUT
          /\ decimals = 0

\* read_LUT(path, method)
ReadLUT ==
    /\ pc = "start"
    /\ LUT = NoLUT
    /\ \E o \in ReaderOutcomes :
          LET d == read_LUT(path, method, disk, o)
          IN  /\ result' = d.result
              /\ calls' = calls \o d.calls
    /\ pc' = "read"
    /\ UNCHANGED <<disk, LUT, decimals, path, method, warned>>

\* write_LUT(LUT, path, decimals, method)
WriteLUT ==
    /\ pc = "start"
    /\ LUT # NoLUT
    /\ \E o \in WriterOutcomes(LUT) :
          LET d == write_LUT(LUT, path, decimals, method, o)
          IN  /\ disk' = IF d.outcome.opened THEN File(d.outcome.lines)
                         ELSE disk
              /\ LUT' = d.outcome.lut
              /\ result' = d.outcome.result
              /\ warned' = d.outcome.warned
              /\ calls' = calls \o d.calls
    /\ pc' = "written"
    /\ UNCHANGED <<decimals, path, method>>

DispatchNext == ReadLUT \/ WriteLUT

SpecDispatch == DispatchInit /\ [][DispatchNext]_vars

\* ---------------------------------------- dispatch layer: what is checked
IsRegistered(p) ==
    lower_pieces(splitext(p)) \in DOMAIN EXTENSION_TO_LUT_FORMAT_MAPPING

\* the method a call names: the one given, else the one of the extension
NamedMethod ==
    lower(IF method = "None"
          THEN EXTENSION_TO_LUT_FORMAT_MAPPING[lower_pieces(splitext(path))]
          ELSE method)

\* the method is given, or the extension gives one
NamesMethod == method # "None" \/ IsRegistered(path)

\* C6: a read_LUT call makes at most two codec calls; when its first call
\* is the Iridas reader failing with a value error, the second is the
\* Resolve reader on the same path and read_LUT ends as that call ends,
\* with its result or its error; a .cube file holding a shaper and a cube
\* read with the method omitted or "Iridas Cube" in any letter case gives
\* the two-element LUTSequence.
C6_IridasFallback ==
    pc = "read" =>
        /\ Len(calls) <= 2
        /\ (/\ Len(calls) >= 1
            /\ calls[1].fn = "read_LUT_IridasCube"
            /\ calls[1].out = Raise("ValueError")) =>
                /\ Len(calls) = 2
                /\ calls[2].fn = "read_LUT_ResolveCube"
                /\ calls[2].path = path
                /\ calls[2].out = read_LUT_ResolveCube(path, disk)
                /\ result = calls[2].out
        /\ (/\ IsRegistered(path)
            /\ NamedMethod = "iridas cube"
            /\ IsComposite(disk)
            /\ HasWholeCube(disk)) =>
                /\ Len(calls) = 2
                /\ calls[1].fn = "read_LUT_IridasCube"
                /\ result.status = "ok"
                /\ result.value.kind = "LUTSequence"
                /\ Len(result.value.seq) = 2

C6_Witness ==
    /\ pc = "read"
    /\ method = "IRIDAS CUBE"
    /\ path = <<"lut", ".", "CUBE">>
    /\ Len(calls) = 2
    /\ calls[1].out = Raise("ValueError")
    /\ calls[2].fn = "read_LUT_ResolveCube"
    /\ result.status = "ok"
    /\ result.value.kind = "LUTSequence"

\* C7: when the first codec call of read_LUT fails and it is not the Iridas
\* reader failing with a value error, no other codec is called and
\* read_LUT fails with that same error.
C7_OnlyIridasValueErrorCaught ==
    (/\ pc = "read"
     /\ Len(calls) >= 1
     /\ calls[1].out.status = "raise"
     /\ ~(/\ calls[1].fn = "read_LUT_IridasCube"
          /\ calls[1].out.error = "ValueError")) =>
        /\ Len(calls) = 1
        /\ result = calls[1].out

C7_Witness ==
    /\ pc = "read"
    /\ method = "Resolve Cube"
    /\ Len(calls) = 1
    /\ calls[1].fn = "read_LUT_ResolveCube"
    /\ calls[1].out = Raise("ValueError")
    /\ result = Raise("ValueError")

\* the writer the named method stands for, Resolve Cube taking the place of
\* Iridas Cube for a LUTSequence
NamedWriter ==
    IF NamedMethod = "iridas cube"
    THEN IF LUT.kind = "LUTSequence" THEN "write_LUT_ResolveCube"
         ELSE "write_LUT_IridasCube"
    ELSE LUT_WRITE_METHODS[NamedMethod]

C9_Claimed ==
    (pc \in {"read", "written"} /\ NamesMethod) =>
        /\ Len(calls) >= 1
        /\ pc = "read" => calls[1].fn = LUT_READ_METHODS[NamedMethod]
        /\ pc = "written" => calls[1].fn \in
               {LUT_WRITE_METHODS[NamedMethod], "write_LUT_ResolveCube"}

\* ------------------------------- Resolve .cube: validation before writing
\* write_LUT_ResolveCube does not look at the table before it opens the
\* file, so the LUTs on which its validation is run at the size limits
\* carry no table
HeaderLUT(kind, size, domain) == MakeLUT(kind, <<>>, Name, domain, <<>>, size)

ShaperSizes == {1, 2, 3, 65535, 65536, 65537}

CubeSizes == {1, 2, 3, 255, 256, 257}

FlatDomain == <<<<0, 0, 0>>, <<0, 0, 0>>>>

CurveDomains == {<<<<0>>, <<Unit>>>>, <<<<0>>, <<Unit>>, <<2 * Unit>>>>}

AttestInputs ==
    LET domains == {DefaultDomain, WideDomain, MixedDomain, CrossedDomain,
                    FlatDomain, ExplicitDomain}
        curves == {HeaderLUT("LUT1D", n, d) :
                      n \in ShaperSizes, d \in CurveDomains}
        shapers == {HeaderLUT("LUT3x1D", n, d) :
                       n \in ShaperSizes, d \in domains}
        cubes == {HeaderLUT("LUT3D", n, d) : n \in CubeSizes, d \in domains}
    IN  curves \cup shapers \cup cubes
        \cup {LUTSequence(<<a, b>>) :
                a \in {HeaderLUT("LUT1D", n, <<<<0>>, <<Unit>>>>) :
                          n \in ShaperSizes}
                      \cup {HeaderLUT("LUT3x1D", n, d) :
                               n \in ShaperSizes,
                               d \in {DefaultDomain, ExplicitDomain}},
                b \in {HeaderLUT("LUT3D", n, d) :
                          n \in CubeSizes,
                          d \in {WideDomain, MixedDomain}}}

AttestInit ==
    /\ pc = "start"
    /\ result = NoResult
    /\ calls = <<>>
    /\ warned = FALSE
    /\ path = <<"lut", ".", "cube">>
    /\ method = "None"
    /\ disk = NoFile
    /\ decimals = 0
    /\ LUT \in AttestInputs

\* write_LUT_ResolveCube(LUT, path, decimals) up to open(path, "w"): it
\* raises, or goes on to open and write the file
AttestResolveCube ==
    /\ pc = "start"
    /\ LET error == cube_validation(LUT)
       IN  /\ result' = IF error = "none" THEN NoResult ELSE Raise(error)
           /\ pc' = IF error = "none" THEN "opening" ELSE "raised"
    /\ LUT' = cube_sequence(LUT).caller
    /\ calls' = Append(calls, "write_LUT_ResolveCube")
    /\ UNCHANGED <<disk, decimals, path, method, warned>>

AttestNext == AttestResolveCube

SpecCubeAttest == AttestInit /\ [][AttestNext]_vars

\* the LUTs a call writes: the value, or the two elements of a sequence
LUTsToWrite ==
    IF LUT.kind = "LUTSequence" THEN {LUT.seq[1], LUT.seq[2]} ELSE {LUT}

IsTwoValued(domain) ==
    Cardinality({domain[n][c] :
                    n \in 1 .. Len(domain), c \in 1 .. Len(domain[1])}) = 2

IsWritableAsCube(lut) ==
    /\ Len(lut.domain) = 2
    /\ IsTwoValued(lut.domain)
    /\ lut.kind \in {"LUT1D", "LUT3x1D"} => lut.size \in 2 .. 65536
    /\ lut.kind = "LUT3D" => lut.size \in 2 .. 256

\* C13: write_LUT_ResolveCube goes on to write the file exactly when every
\* LUT to be written has an implicit domain with exactly two distinct
\* values, a shaper has a size in 2 .. 65536 and a cube a size in 2 .. 256;
\* otherwise it fails with the validation failure: shaper sizes 1 and 65537,
\* cube sizes 1 and 257 and explicit domains are refused, shaper sizes 2 and
\* 65536 and cube sizes 2 and 256 are accepted.
C13_WriteValidation ==
    pc \in {"opening", "raised"} =>
        /\ pc = "opening" <=> \A lut \in LUTsToWrite : IsWritableAsCube(lut)
        /\ pc = "raised" => result = Raise("AssertionError")

C13_Witness ==
    /\ pc = "opening"
    /\ LUT.kind = "LUTSequence"
    /\ LUT.seq[1].size = 65536
    /\ LUT.seq[2].size = 256
    /\ LUT.seq[2].domain = WideDomain

\* ------------------------------- Sony .spi3d: validation at the size limits
SPI3DAttestInit ==
    /\ pc = "start"
    /\ result = NoResult
    /\ calls = <<>>
    /\ warned = FALSE
    /\ path = <<"lut", ".", "spi3d">>
    /\ method = "None"
    /\ disk = NoFile
    /\ decimals = 0
    /\ LUT \in AttestInputs

\* write_LUT_SonySPI3D(LUT, path, decimals) up to open(path, "w"): it
\* raises, or goes on to open and write the file
AttestSonySPI3D ==
    /\ pc = "start"
    /\ LET error == spi3d_validation(LUT)
       IN  /\ result' = IF error = "none" THEN NoResult ELSE Raise(error)
           /\ pc' = IF error = "none" THEN "opening" ELSE "raised"
    /\ warned' = (LUT.kind = "LUTSequence")
    /\ calls' = Append(calls, "write_LUT_SonySPI3D")
    /\ UNCHANGED <<disk, LUT, decimals, path, method>>

SPI3DAttestNext == AttestSonySPI3D

SpecSPI3DAttest == SPI3DAttestInit /\ [][SPI3DAttestNext]_vars

\* C15 as claimed: writing a LUT3D of size 257 with the implicit default
\* domain with write_LUT_SonySPI3D fails validation.
C15_Claimed ==
    (pc \in {"opening", "raised"} /\ LUT.kind = "LUT3D" /\ LUT.size = 257
        /\ LUT.domain = DefaultDomain) =>
        pc = "raised"

\* the size of a LUT3D never decides whether write_LUT_SonySPI3D writes it
C15_SizeNotValidated ==
    (pc \in {"opening", "raised"} /\ LUT.kind = "LUT3D") =>
        (pc = "opening" <=> LUT.domain = DefaultDomain)

====
